---- MODULE Spec2Model ----
(***************************************************************************)
(* A model of tabutils (src/tabutils/io.py, src/tabutils/typetools.py).    *)
(*                                                                         *)
(* Several parts, each with its own specification:                         *)
(*   SpecReadAny    the generic retrying driver  read_any / _read_any      *)
(*   SpecStream     the lazy stream adapter      IterStringIO              *)
(*   SpecGetReader  the extension lookup         get_reader                *)
(*   SpecReaders    the row readers  read_csv, read_fixed_csv, read_xls,   *)
(*                  read_mdb                                               *)
(*   SpecGuess      type guessing    guess_type_by_field,                  *)
(*                  guess_type_by_value, is_date, is_time, is_datetime     *)
(*   SpecSheet      the cell renderer            sanitize_sheet            *)
(*   SpecWrite      the writer                   write                     *)
(*   SpecGeojson    the GeoJSON reader           read_geojson              *)
(* A part's specification leaves the variables of the other parts at rest. *)
(***************************************************************************)
EXTENDS Integers, Sequences, FiniteSets, TLC

VARIABLES
    \* ---- read_any / _read_any --------------------------------------------
    srcKind,     \* "path" or "filelike": what read_any was given (io.py:225)
    pc,          \* position of the read_any generator
    pos,         \* _read_any's local `pos` (io.py:168,173)
    num,         \* enumerate() index of the retry pass (io.py:179,189)
    pass,        \* 1: the reader of the try body, 2: a restarted reader
    rd,          \* records the current reader has produced so far
    out,         \* records delivered to the consumer, in delivery order
    fstate,      \* the file: "unopened", "open" or "closed"
    exc,         \* the failure in flight (NoExc when none)
    err,         \* the failure that reached the caller (NoExc when none)
    scans,       \* number of f.seek(0) re-scans done by the driver
    decRetries,  \* restarts after a decoding failure
    nulRetries,  \* restarts after an embedded-NUL-byte failure
    encoding,    \* kwargs['encoding'] as the reader sees it
    nAtFail,     \* records already delivered when the first failure was raised
    \* ---- IterStringIO ----------------------------------------------------
    sio,         \* the IterStringIO object: [iter, last, pos, bufsize]
    sioLog,      \* the calls made on it so far, each with what it returned
    sioContent,  \* constructor content followed by everything written, as text
    \* ---- get_reader ------------------------------------------------------
    calls,       \* get_reader calls made so far, each with its outcome
    \* ---- read_csv / read_fixed_csv / read_xls / read_mdb -----------------
    tab,         \* one reader call: its options, the rows it has read from
                 \* the file and the records it has yielded
    \* ---- typetools ------------------------------------------------------
    tg,          \* one use of typetools: the function, its inputs so far
                 \* and what it has yielded or returned for them
    \* ---- sanitize_sheet -------------------------------------------------
    sh,          \* one sanitize_sheet call: its kwargs, the cells met so far
                 \* and what was yielded for each
    \* ---- write ----------------------------------------------------------
    wr,          \* one write call: its arguments, the pieces still to write,
                 \* the bytes in the file, `progress` and the value returned
    \* ---- read_geojson ---------------------------------------------------
    gj           \* one read_geojson call: the document, the features still
                 \* to come, the records yielded and the error raised

raVars  == <<srcKind, pc, pos, num, pass, rd, out, fstate, exc, err, scans,
             decRetries, nulRetries, encoding, nAtFail>>
sioVars == <<sio, sioLog, sioContent>>
grVars  == <<calls>>
tabVars == <<tab>>
tgVars  == <<tg>>
shVars  == <<sh>>
wrVars  == <<wr>>
gjVars  == <<gj>>
vars    == <<raVars, sioVars, grVars, tabVars, tgVars, shVars, wrVars,
             gjVars>>

\* What the actions of one part leave alone: the variables of the others.
otherThanRA    == <<sioVars, grVars, tabVars, tgVars, shVars, wrVars, gjVars>>
otherThanSIO   == <<raVars, grVars, tabVars, tgVars, shVars, wrVars, gjVars>>
otherThanGR    == <<raVars, sioVars, tabVars, tgVars, shVars, wrVars, gjVars>>
otherThanTab   == <<raVars, sioVars, grVars, tgVars, shVars, wrVars, gjVars>>
otherThanGuess == <<raVars, sioVars, grVars, tabVars, shVars, wrVars, gjVars>>
otherThanSheet == <<raVars, sioVars, grVars, tabVars, tgVars, wrVars, gjVars>>
otherThanWrite == <<raVars, sioVars, grVars, tabVars, tgVars, shVars, gjVars>>
otherThanGeo   == <<raVars, sioVars, grVars, tabVars, tgVars, shVars, wrVars>>

(***************************************************************************)
(* Bounds of the model.                                                    *)
(***************************************************************************)
MaxRecs == 3
    \* records one reader pass may produce

(***************************************************************************)
(* Part 1.  read_any / _read_any  (io.py:167-231)                          *)
(*                                                                         *)
(* The reader is the environment: each time the driver pulls, it produces  *)
(* a record, ends, or raises.  Three kinds of failure are told apart, as   *)
(* the except clauses do: "decode" (UnicodeDecodeError), "nul" (an         *)
(* Exception whose message is 'line contains NULL byte') and "other".      *)
(***************************************************************************)
NoExc == [kind |-> "none", pass |-> 0, at |-> 0]

FailureKinds == {"decode", "nul", "other"}

Failure(kind, p, at) == [kind |-> kind, pass |-> p, at |-> at]

\* read_any: `hasattr(filepath, 'read')` picks the branch; only the path
\* branch passes convert=True (io.py:225-231).
Convert(kind) == kind = "path"

\* The with statement of read_any (io.py:229): whichever way the body is
\* left (return, raise, close), a file the driver opened is closed; the
\* caller's own object is never touched.
WithExitNoCleanup(kind, f, how) ==
    IF kind = "path" /\ f = "open" /\ how = "return" THEN "closed" ELSE f

WithExit(kind, f, how) ==
    IF kind = "path" /\ f = "open" THEN "closed" ELSE f

\* `pos += 1` after the consumer resumes the generator (io.py:173).
CountYieldedStuck(p) == p

CountYielded(p) == p + 1

\* `if num >= pos: yield r` of the restarted pass (io.py:180, 190).
Emit(n, p) == n >= p

\* Which clause of the try statement takes a failure (io.py:170-193).  The
\* try body is the first pass only: a failure raised by a restarted reader
\* is raised inside an except clause and no sibling clause sees it.
HandlerAnySource(e, inPass, conv) ==
    IF inPass # 1 THEN "propagate"
    ELSE IF e.kind = "decode" THEN "decode_retry"
    ELSE IF e.kind = "nul" THEN "nul_retry"
    ELSE "propagate"

Handler(e, inPass, conv) ==
    IF inPass # 1 THEN "propagate"
    ELSE IF e.kind = "decode" THEN "decode_retry"
    ELSE IF e.kind = "nul" /\ conv THEN "nul_retry"
    ELSE "propagate"

Terminal == {"done", "raised", "closed"}

InitRA ==
    /\ srcKind \in {"path", "filelike"}
    /\ pc = "created"
    /\ pos = 0
    /\ num = 0
    /\ pass = 1
    /\ rd = 0
    /\ out = <<>>
    /\ fstate = IF srcKind = "path" THEN "unopened" ELSE "open"
    /\ exc = NoExc
    /\ err = NoExc
    /\ scans = 0
    /\ decRetries = 0
    /\ nulRetries = 0
    /\ encoding = "given"
    /\ nAtFail = 0

\* First next(): the body of read_any starts, opens the path and enters the
\* for loop of _read_any (io.py:225-231, 168-171).
Start ==
    /\ pc = "created"
    /\ fstate' = IF srcKind = "path" THEN "open" ELSE fstate
    /\ pc' = "pull"
    /\ pos' = 0
    /\ UNCHANGED <<srcKind, num, pass, rd, out, exc, err, scans, decRetries,
                   nulRetries, encoding, nAtFail>>
    /\ UNCHANGED otherThanRA

\* First next() on a path that cannot be opened: open() raises (io.py:229).
StartOpenFails ==
    /\ pc = "created"
    /\ srcKind = "path"
    /\ pc' = "raised"
    /\ err' = Failure("open", 0, 0)
    /\ UNCHANGED <<srcKind, pos, num, pass, rd, out, fstate, exc, scans,
                   decRetries, nulRetries, encoding, nAtFail>>
    /\ UNCHANGED otherThanRA

\* A later next(): the generator resumes after its yield; in the try body
\* that is `pos += 1` (io.py:172-173), then the reader is pulled again.
Resume ==
    /\ pc = "yield"
    /\ pos' = IF pass = 1 THEN CountYielded(pos) ELSE pos
    /\ pc' = "pull"
    /\ UNCHANGED <<srcKind, num, pass, rd, out, fstate, exc, err, scans,
                   decRetries, nulRetries, encoding, nAtFail>>
    /\ UNCHANGED otherThanRA

\* The reader produces its next record.  In the try body it is yielded
\* (io.py:171-172); in a restarted pass enumerate numbers it and it is
\* yielded only if num >= pos (io.py:179-181, 189-191).
ReaderYield ==
    /\ pc = "pull"
    /\ rd < MaxRecs
    /\ rd' = rd + 1
    /\ num' = IF pass = 1 THEN num ELSE rd
    /\ IF pass = 1 \/ Emit(rd, pos)
          THEN /\ out' = Append(out, [pass |-> pass, idx |-> rd + 1])
               /\ pc' = "yield"
          ELSE /\ out' = out
               /\ pc' = "pull"
    /\ UNCHANGED <<srcKind, pos, pass, fstate, exc, err, scans, decRetries,
                   nulRetries, encoding, nAtFail>>
    /\ UNCHANGED otherThanRA

\* The reader is exhausted: the for loop ends, _read_any and read_any
\* return, the with statement closes the file.
ReaderStop ==
    /\ pc = "pull"
    /\ pc' = "done"
    /\ fstate' = WithExit(srcKind, fstate, "return")
    /\ UNCHANGED <<srcKind, pos, num, pass, rd, out, exc, err, scans,
                   decRetries, nulRetries, encoding, nAtFail>>
    /\ UNCHANGED otherThanRA

\* The reader raises while being pulled.
ReaderRaise ==
    /\ pc = "pull"
    /\ \E k \in FailureKinds : exc' = Failure(k, pass, rd)
    /\ pc' = "except"
    /\ nAtFail' = IF pass = 1 THEN Len(out) ELSE nAtFail
    /\ UNCHANGED <<srcKind, pos, num, pass, rd, out, fstate, err, scans,
                   decRetries, nulRetries, encoding>>
    /\ UNCHANGED otherThanRA

\* except UnicodeDecodeError: seek to the start, detect the encoding and
\* restart the reader (io.py:174-179).
HandleDecode ==
    /\ pc = "except"
    /\ Handler(exc, pass, Convert(srcKind)) = "decode_retry"
    /\ scans' = scans + 1
    /\ encoding' = "detected"
    /\ decRetries' = decRetries + 1
    /\ pass' = 2
    /\ rd' = 0
    /\ num' = 0
    /\ exc' = NoExc
    /\ pc' = "pull"
    /\ UNCHANGED <<srcKind, pos, out, fstate, err, nulRetries, nAtFail>>
    /\ UNCHANGED otherThanRA

\* except Exception, message 'line contains NULL byte', convert set: seek to
\* the start, recode the file to UTF-8 and restart the reader on the recoded
\* copy (io.py:182-189).
HandleNul ==
    /\ pc = "except"
    /\ Handler(exc, pass, Convert(srcKind)) = "nul_retry"
    /\ scans' = scans + 1
    /\ encoding' = "ENCODING"
    /\ nulRetries' = nulRetries + 1
    /\ pass' = 2
    /\ rd' = 0
    /\ num' = 0
    /\ exc' = NoExc
    /\ pc' = "pull"
    /\ UNCHANGED <<srcKind, pos, out, fstate, err, decRetries, nAtFail>>
    /\ UNCHANGED otherThanRA

\* Any other failure: the bare `raise` (io.py:192-193), or a failure raised
\* by a restarted reader; it leaves both generators, and the with statement
\* closes the file on the way out.
Propagate ==
    /\ pc = "except"
    /\ Handler(exc, pass, Convert(srcKind)) = "propagate"
    /\ err' = exc
    /\ exc' = NoExc
    /\ pc' = "raised"
    /\ fstate' = WithExit(srcKind, fstate, "raise")
    /\ UNCHANGED <<srcKind, pos, num, pass, rd, out, scans, decRetries,
                   nulRetries, encoding, nAtFail>>
    /\ UNCHANGED otherThanRA

\* The consumer abandons the sequence: the generator is closed (close(), or
\* its finalisation when the last reference goes).  GeneratorExit is raised
\* at the yield; it is no Exception, so no except clause of _read_any takes
\* it, and the with statement closes the file.
Close ==
    /\ pc \in {"created", "yield"}
    /\ pc' = "closed"
    /\ fstate' = WithExit(srcKind, fstate, "close")
    /\ UNCHANGED <<srcKind, pos, num, pass, rd, out, exc, err, scans,
                   decRetries, nulRetries, encoding, nAtFail>>
    /\ UNCHANGED otherThanRA

NextRA ==
    \/ Start
    \/ StartOpenFails
    \/ Resume
    \/ ReaderYield
    \/ ReaderStop
    \/ ReaderRaise
    \/ HandleDecode
    \/ HandleNul
    \/ Propagate
    \/ Close


(***************************************************************************)
(* Part 2.  IterStringIO  (io.py:56-148)                                   *)
(*                                                                         *)
(* Text is a sequence of code points, a byte string a sequence of byte     *)
(* values.  self.iter holds elements of two kinds: "str", a byte string    *)
(* (an encoded character, or the '\n' that _read appends to the lookback   *)
(* buffer) and, once seek has put the lookback buffer back in front,       *)
(* "int", one byte of a bytearray that a read returned.                    *)
(***************************************************************************)
MaxLen == 2
    \* length of the constructor content
MaxOps == 3
    \* calls made on one IterStringIO
SmallBuf == 2
    \* the small lookback capacity tried besides the default

\* bufsize=4096 (io.py:62).
DefaultBufsize == 4096

\* 'a', 'n with tilde', '\n', '\r'
Chars == {97, 241, 10, 13}

Min(a, b) == IF a <= b THEN a ELSE b

Take(n, s) == SubSeq(s, 1, Min(n, Len(s)))

Drop(n, s) == SubSeq(s, Min(n, Len(s)) + 1, Len(s))

Str(bytes) == [k |-> "str", b |-> bytes]

IntElem(v) == [k |-> "int", b |-> <<v>>]

\* s.encode(ENCODING) of one character (io.py:115-116); ENCODING is utf-8.
EncodeChar(c) ==
    IF c < 128 THEN <<c>> ELSE <<192 + (c \div 64), 128 + (c % 64)>>

\* _encode (io.py:115-116): one byte string per character.
Encode(text) == [i \in 1..Len(text) |-> Str(EncodeChar(text[i]))]

\* _chain (io.py:118-120): ifilter(None, ...) drops the empty fragments,
\* chain.from_iterable flattens the others to their characters.
RECURSIVE Chain(_)
Chain(frags) ==
    IF frags = <<>> THEN <<>>
    ELSE IF Head(frags) = <<>> THEN Chain(Tail(frags))
    ELSE Head(frags) \o Chain(Tail(frags))

\* ft.byte: the elements assembled into one contiguous byte sequence.
RECURSIVE Byte(_)
Byte(elems) ==
    IF elems = <<>> THEN <<>> ELSE Head(elems).b \o Byte(Tail(elems))

\* Iterating a bytearray gives its bytes as ints (deque.extend, io.py:125).
Ints(byte) == [i \in 1..Len(byte) |-> IntElem(byte[i])]

\* deque(maxlen=bufsize) (io.py:100): the oldest entries fall out.
LastN(cap, s) ==
    IF Len(s) <= cap THEN s ELSE SubSeq(s, Len(s) - cap + 1, Len(s))

\* `s not in newlines` of lines (io.py:109-111).  An int is never a member.
IsNewline(e) == e.k = "str" /\ e.b \in {<<10>>, <<13>>, <<13, 10>>}

\* `it.islice(iterable, n) if n else iterable` (io.py:124).
Islice(elems, n) == IF n # 0 THEN Take(n, elems) ELSE elems

\* `self.pos += len(byte)` (io.py:126).
NewPosAssigned(p, byte) == Len(byte)

NewPos(p, byte) == p + Len(byte)

\* _read (io.py:122-128) once `taken` has been drawn and `rest` is left.
ReadTaken(s, taken, rest) ==
    LET byte == Byte(taken)
    IN  [s   |-> [iter    |-> rest,
                  last    |-> LastN(s.bufsize,
                                    LastN(s.bufsize, s.last \o Ints(byte))
                                       \o <<Str(<<10>>)>>),
                  pos     |-> NewPos(s.pos, byte),
                  bufsize |-> s.bufsize],
         ret |-> byte, stop |-> FALSE]

\* read (io.py:134-135).
Read(s, n) ==
    LET taken == Islice(s.iter, n)
    IN  ReadTaken(s, taken, Drop(Len(taken), s.iter))

\* groupby skipping to the first group whose key is true (io.py:111-113).
RECURSIVE SkipNewlines(_)
SkipNewlines(elems) ==
    IF elems = <<>> THEN <<>>
    ELSE IF IsNewline(Head(elems)) THEN SkipNewlines(Tail(elems))
    ELSE elems

\* Length of the group: the leading elements that are no newline.
RECURSIVE LineLen(_)
LineLen(elems) ==
    IF elems = <<>> THEN 0
    ELSE IF IsNewline(Head(elems)) THEN 0
    ELSE 1 + LineLen(Tail(elems))

\* readline (io.py:137-138) on a fresh groupby (io.py:106-113).  With
\* nothing but newlines left, lines.next() raises StopIteration and _read is
\* not reached.  A group read to its end costs one more element, the one
\* groupby fetched to see the key change; islice stops without fetching.
Readline(s, n) ==
    LET from == SkipNewlines(s.iter)
        len  == LineLen(from)
    IN  IF from = <<>>
          THEN [s |-> [s EXCEPT !.iter = <<>>], ret |-> <<>>, stop |-> TRUE]
          ELSE IF n # 0 /\ n <= len
                 THEN ReadTaken(s, Take(n, from), Drop(n, from))
                 ELSE ReadTaken(s, Take(len, from), Drop(len + 1, from))

\* readlines (io.py:140-141), drained: _read on every group in turn.
RECURSIVE ReadlinesFrom(_, _)
ReadlinesFrom(s, acc) ==
    LET r == Readline(s, 0)
    IN  IF r.stop THEN [s |-> r.s, lines |-> acc]
        ELSE ReadlinesFrom(r.s, Append(acc, r.ret))

\* write (io.py:130-132): the new chain is the old iterator, then the new.
WriteChainInFront(old, new) == new \o old

WriteChain(old, new) == old \o new

Write(s, frags) ==
    [s EXCEPT !.iter = WriteChain(s.iter, Encode(Chain(frags)))]

\* seek (io.py:143-145).  It is called with an offset inside the retained
\* lookback buffer; one outside it is unsupported.
Seek(s, n) == [s EXCEPT !.iter = Drop(n, s.last) \o s.iter, !.pos = n]

\* All texts of at most n characters.
RECURSIVE Texts(_)
Texts(n) ==
    IF n = 0 THEN {<<>>}
    ELSE LET shorter == Texts(n - 1)
         IN  shorter \cup {Append(t, c) : t \in shorter, c \in Chars}

\* The n that read, readline and seek are called with; 0 stands for a call
\* without n as well, `if n` (io.py:124) takes both the same way.
ReadArgs == {0, 1, 2}

ReadlineArgs == {0, 1}

SeekArgs == {0, 1}

\* What write is called with: ['a'] and ['', 'n~\n'].
WriteArgs == {<< <<97>> >>, << <<>>, <<241, 10>> >>}

Entry(op, n, r, lines, s, before) ==
    [op |-> op, n |-> n, ret |-> r.ret, stop |-> r.stop, lines |-> lines,
     tell |-> s.pos, took |-> Len(before.iter) - Len(s.iter)]

\* __init__ (io.py:97-101).
InitSIO ==
    /\ sioContent \in Texts(MaxLen)
    /\ \E cap \in {SmallBuf, DefaultBufsize} :
          sio = [iter |-> Encode(Chain(<<sioContent>>)), last |-> <<>>,
                 pos |-> 0, bufsize |-> cap]
    /\ sioLog = <<>>

DoRead ==
    /\ Len(sioLog) < MaxOps
    /\ \E n \in ReadArgs :
          LET r == Read(sio, n)
          IN  /\ sio' = r.s
              /\ sioLog' = Append(sioLog, Entry("read", n, r, <<>>, r.s, sio))
    /\ UNCHANGED sioContent
    /\ UNCHANGED otherThanSIO

DoReadline ==
    /\ Len(sioLog) < MaxOps
    /\ \E n \in ReadlineArgs :
          LET r == Readline(sio, n)
          IN  /\ sio' = r.s
              /\ sioLog' = Append(sioLog,
                                  Entry("readline", n, r, <<>>, r.s, sio))
    /\ UNCHANGED sioContent
    /\ UNCHANGED otherThanSIO

DoReadlines ==
    /\ Len(sioLog) < MaxOps
    /\ LET r == ReadlinesFrom(sio, <<>>)
       IN  /\ sio' = r.s
           /\ sioLog' = Append(sioLog,
                 Entry("readlines", 0, [ret |-> <<>>, stop |-> FALSE],
                       r.lines, r.s, sio))
    /\ UNCHANGED sioContent
    /\ UNCHANGED otherThanSIO

DoWrite ==
    /\ Len(sioLog) < MaxOps
    /\ \E frags \in WriteArgs :
          /\ sio' = Write(sio, frags)
          /\ sioContent' = sioContent \o Chain(frags)
          /\ sioLog' = Append(sioLog,
                Entry("write", 0, [ret |-> <<>>, stop |-> FALSE], <<>>,
                      sio, sio))
    /\ UNCHANGED otherThanSIO

DoSeek ==
    /\ Len(sioLog) < MaxOps
    /\ \E n \in SeekArgs :
          /\ n <= Len(sio.last)
          /\ sio' = Seek(sio, n)
          /\ sioLog' = Append(sioLog,
                Entry("seek", n, [ret |-> <<>>, stop |-> FALSE], <<>>,
                      Seek(sio, n), Seek(sio, n)))
    /\ UNCHANGED sioContent
    /\ UNCHANGED otherThanSIO

NextSIO ==
    \/ DoRead
    \/ DoReadline
    \/ DoReadlines
    \/ DoWrite
    \/ DoSeek

(***************************************************************************)
(* Part 3.  get_reader  (io.py:1078-1117)                                  *)
(***************************************************************************)
MaxCalls == 2
    \* get_reader calls in one run

\* The switch table (io.py:1099-1110).
switch ==
    [ext \in {"csv", "xls", "xlsx", "mdb", "json", "geojson", "geojson.json",
              "sqlite", "dbf", "tsv"} |->
        CASE ext = "csv"          -> "read_csv"
          [] ext = "xls"          -> "read_xls"
          [] ext = "xlsx"         -> "read_xls"
          [] ext = "mdb"          -> "read_mdb"
          [] ext = "json"         -> "read_json"
          [] ext = "geojson"      -> "read_geojson"
          [] ext = "geojson.json" -> "read_geojson"
          [] ext = "sqlite"       -> "read_sqlite"
          [] ext = "dbf"          -> "read_dbf"
          [] ext = "tsv"          -> "read_tsv"]

\* The functions module tabutils.io defines (io.py:151-1078).
ModuleFunctions ==
    {"patch_http_response_read", "_read_any", "read_any", "_read_csv",
     "read_mdb", "read_dbf", "read_sqlite", "read_csv", "read_tsv",
     "read_fixed_csv", "sanitize_sheet", "read_xls", "read_json",
     "read_geojson", "write", "hash_file", "get_utf8", "detect_encoding",
     "get_reader"}

\* The extensions get_reader is called with: those of the table and some
\* that are not in it, the empty one among them.
Extensions == DOMAIN switch \cup {"", "txt", "CSV"}

Returns(v) == [kind |-> "return", value |-> v]

Raises(e) == [kind |-> "raise", value |-> e]

\* `switch[extension]` (io.py:1114): a dict raises KeyError for a missing key.
Subscript(ext) ==
    IF ext \in DOMAIN switch THEN Returns(switch[ext]) ELSE Raises("KeyError")

\* getattr(module, name) (io.py:1114).
Getattr(name) ==
    IF name \in ModuleFunctions THEN Returns(name)
    ELSE Raises("AttributeError")

\* Whether an `except <clause>` takes an exception of class `raised`:
\* KeyError and IndexError are both LookupErrors, neither is the other's
\* subclass.
Catches(clause, raised) ==
    \/ clause = raised
    \/ clause = "LookupError" /\ raised \in {"KeyError", "IndexError"}
    \/ clause = "Exception"

\* The try statement of get_reader (io.py:1112-1117).
GetReader(ext) ==
    LET name  == Subscript(ext)
        found == IF name.kind = "return" THEN Getattr(name.value) ELSE name
    IN  IF found.kind = "raise" /\ Catches("IndexError", found.value)
          THEN Raises("TypeError")
          ELSE found

InitGR == calls = <<>>

CallGetReader ==
    /\ Len(calls) < MaxCalls
    /\ \E ext \in Extensions :
          calls' = Append(calls, [extension |-> ext, outcome |-> GetReader(ext)])
    /\ UNCHANGED otherThanGR

NextGR == CallGetReader

(***************************************************************************)
(* Part 4: the row readers read_csv / read_tsv, read_fixed_csv, read_xls   *)
(* and read_mdb.                                                           *)
(*                                                                         *)
(* Text here is a sequence of one-character strings.  A delimited file is  *)
(* the sequence of rows unicodecsv's reader parses from it, each a         *)
(* sequence of cell texts (read_tsv is read_csv with the tab dialect,      *)
(* io.py:563, and differs in that parsing only); a fixed-width file is a   *)
(* sequence of lines with their newline; a sheet is the sequence of its    *)
(* rows as sanitize_sheet renders them.  A record is a function from       *)
(* field names to values.  The options sanitize, dedupe and first_col      *)
(* keep their defaults.                                                    *)
(***************************************************************************)
MaxRows == 2
    \* data rows read from one file

\* None among the values of a record (no text has a four-letter element).
PyNone == <<"None">>

Cells == {<<>>, <<" ">>, <<"x">>}

\* First rows of a file: names that are distinct, repeated, blank in the
\* first or the last column, or all blank.
HeaderRows ==
    {<<<<"a">>, <<"b">>>>, <<<<"a">>, <<"a">>>>, <<<<>>, <<"b">>>>,
     <<<<"a">>, <<" ">>>>, <<<<>>, <<" ">>>>, <<<<"a">>>>}

\* Rows of at most two cells, and rows with a third cell beyond a
\* two-column header.
CsvRows ==
    {<<>>} \cup [1..1 -> Cells] \cup [1..2 -> Cells]
        \cup {r \o <<c>> : r \in [1..2 -> Cells], c \in {<<>>, <<"x">>}}

LineChars == {"a", " "}

FixedLines ==
    {t \o <<"\n">> : t \in UNION {[1..n -> LineChars] : n \in 0..3}}

\* The `widths` argument: ascending start offsets.
WidthsArgs == {<<0>>, <<0, 2>>, <<1, 2>>, <<0, 1, 2>>}

\* Rows of a sheet as rendered by sanitize_sheet; ragged_rows is on
\* (io.py:774), so rows need not have the same length.
XlsRows ==
    {<<<<"a">>, <<"b">>>>, <<<<>>, <<>>>>, <<<<" ">>, <<>>>>,
     <<<<"x">>, <<>>>>, <<<<>>, <<"x">>>>, <<<<"a">>>>,
     <<<<"a">>, <<>>, <<"x">>>>}

FirstRowArgs == {0, 1}

ReaderKinds == {"csv", "fixed", "xls", "mdb"}

IsSpace(c) == c \in {" ", "\n"}

RECURSIVE LStrip(_)
LStrip(s) == IF s # <<>> /\ IsSpace(Head(s)) THEN LStrip(Tail(s)) ELSE s

RECURSIVE RStrip(_)
RStrip(s) ==
    IF s # <<>> /\ IsSpace(s[Len(s)])
    THEN RStrip(SubSeq(s, 1, Len(s) - 1)) ELSE s

\* unicode.strip()
Strip(s) == RStrip(LStrip(s))

Max(S) == CHOOSE m \in S : \A x \in S : x <= m

\* dict(zip(keys, values)): zip stops at the shorter, a repeated key keeps
\* its last value.
DictZip(keys, values) ==
    LET n == Min(Len(keys), Len(values))
    IN  [k \in {keys[i] : i \in 1..n} |->
            values[Max({i \in 1..n : keys[i] = k})]]

\* 'column_%i' % (n + 1)  (io.py:519, 631, 794)
ColumnName(n) == <<"column_", ToString(n)>>

ColumnNames(n) == [i \in 1..n |-> ColumnName(i)]

\* [name for name in names if name.strip()]  (io.py:514, 791)
Stripped(names) == SelectSeq(names, LAMBDA name : Strip(name) # <<>>)

\* One row of csv.DictReader(f, header) (io.py:273): cells are keyed by
\* position, cells beyond the header are collected under the key None and
\* header names beyond the row get the value None.
DictReaderRow(fieldnames, row) ==
    LET lf == Len(fieldnames)
        lr == Len(row)
        padded == row \o [i \in 1..(lf - lr) |-> PyNone]
        d == DictZip(fieldnames, padded)
    IN  IF lf < lr
        THEN [k \in DOMAIN d \cup {PyNone} |->
                 IF k = PyNone THEN SubSeq(row, lf + 1, lr) ELSE d[k]]
        ELSE d

\* dict(it.ifilter(lambda x: x[0], r.iteritems()))  (io.py:276)
RemoveNoneKeys(r) == [k \in DOMAIN r \ {PyNone, <<>>} |-> r[k]]

\* The mutant of filterer: every record is kept.
FiltererKeepsAll(record) == TRUE

\* filterer (io.py:279): any(v.strip() for v in row.values() if v)
Filterer(record) ==
    \E k \in DOMAIN record :
        /\ record[k] # PyNone
        /\ record[k] # <<>>
        /\ Strip(record[k]) # <<>>

\* The mutant of schema: zip(widths, widths[1:]), which has no last pair.
SchemaZip(widths) ==
    [i \in 1..(Len(widths) - 1) |-> [s |-> widths[i], e |-> widths[i + 1]]]

\* schema (io.py:622): izip_longest(widths, widths[1:]); the last pair has
\* None as its end, here a pair without the field e.
Schema(widths) ==
    [i \in 1..Len(widths) |->
        IF i < Len(widths)
        THEN [s |-> widths[i], e |-> widths[i + 1]]
        ELSE [s |-> widths[i]]]

\* line[s:e] for offsets that are not negative
Slice(line, v) ==
    IF "e" \in DOMAIN v THEN Drop(v.s, Take(v.e, line)) ELSE Drop(v.s, line)

\* get_row (io.py:634-635)
GetRow(header, schema, line) ==
    DictZip(header, [i \in 1..Len(schema) |-> Strip(Slice(line, schema[i]))])

\* read_xls's row test (io.py:807): any(v and v.strip() for v in values)
AnyValue(values) ==
    \E i \in DOMAIN values : values[i] # <<>> /\ Strip(values[i]) # <<>>

NewReader(kind) ==
    [kind |-> kind, pc |-> "new", has_header |-> TRUE, first_row |-> 0,
     widths |-> <<>>, header |-> <<>>, file |-> <<>>, cursor |-> 0,
     out |-> <<>>, err |-> "none"]

\* Rows the reader's loop has taken from a delimited or fixed-width file.
RowsTaken == tab.cursor - (IF tab.has_header THEN 1 ELSE 0)

InitTab == tab \in {NewReader(kind) : kind \in ReaderKinds}

\* read_csv.reader up to its return (io.py:505-521) and the start of
\* _read_csv (io.py:268-273).  `names` is the first row of the file; without
\* a header f.seek(pos) puts it back.  An empty header with has_header
\* False as _read_csv receives it is a ValueError (io.py:270-271).
OpenCsv ==
    /\ tab.kind = "csv" /\ tab.pc = "new"
    /\ \E has_header \in BOOLEAN :
       \E names \in (IF has_header THEN HeaderRows ELSE CsvRows) :
          LET header == IF has_header THEN Stripped(names)
                        ELSE ColumnNames(Len(names))
          IN  tab' = [tab EXCEPT
                  !.has_header = has_header,
                  !.header = header,
                  !.file = <<names>>,
                  !.cursor = IF has_header THEN 1 ELSE 0,
                  !.pc = IF header = <<>> THEN "failed" ELSE "open",
                  !.err = IF header = <<>> THEN "ValueError" ELSE "none"]
    /\ UNCHANGED otherThanTab

\* One row through _read_csv's pipeline (io.py:273-280): DictReader skips a
\* row without cells, the None key is removed, an empty record is dropped.
CsvRow ==
    /\ tab.kind = "csv" /\ tab.pc = "open"
    /\ RowsTaken < MaxRows
    /\ \E row \in (IF tab.cursor < Len(tab.file)
                   THEN {tab.file[tab.cursor + 1]} ELSE CsvRows) :
          LET record == RemoveNoneKeys(DictReaderRow(tab.header, row))
          IN  tab' = [tab EXCEPT
                  !.file = IF tab.cursor < Len(tab.file) THEN @
                           ELSE Append(@, row),
                  !.cursor = @ + 1,
                  !.out = IF row # <<>> /\ Filterer(record)
                          THEN Append(@, record) ELSE @]
    /\ UNCHANGED otherThanTab

\* read_fixed_csv.reader up to its return (io.py:617-636); with a header
\* the first line is read for the names, blank ones dropped (io.py:625-627).
OpenFixed ==
    /\ tab.kind = "fixed" /\ tab.pc = "new"
    /\ \E widths \in WidthsArgs, has_header \in BOOLEAN :
          IF has_header
          THEN \E line \in FixedLines :
                  LET schema == Schema(widths)
                      names == [i \in 1..Len(schema) |->
                                   Strip(Slice(line, schema[i]))]
                  IN  tab' = [tab EXCEPT
                          !.has_header = TRUE,
                          !.widths = widths,
                          !.header = SelectSeq(names, LAMBDA n : n # <<>>),
                          !.file = <<line>>,
                          !.cursor = 1,
                          !.pc = "open"]
          ELSE tab' = [tab EXCEPT
                  !.has_header = FALSE,
                  !.widths = widths,
                  !.header = ColumnNames(Len(widths)),
                  !.pc = "open"]
    /\ UNCHANGED otherThanTab

\* One line through it.imap(get_row, f) (io.py:636).
FixedLine ==
    /\ tab.kind = "fixed" /\ tab.pc = "open"
    /\ RowsTaken < MaxRows
    /\ \E line \in FixedLines :
          tab' = [tab EXCEPT
              !.file = Append(@, line),
              !.cursor = @ + 1,
              !.out = Append(@, GetRow(tab.header, Schema(tab.widths), line))]
    /\ UNCHANGED otherThanTab

\* read_xls up to its loop (io.py:765-798): the sheet is there as a whole
\* and the header comes from row first_row.
OpenXls ==
    /\ tab.kind = "xls" /\ tab.pc = "new"
    /\ \E n \in 1..(MaxRows + 1) :
       \E sheet \in [1..n -> XlsRows] :
       \E has_header \in BOOLEAN :
       \E first_row \in {r \in FirstRowArgs : r < n} :
          LET names == sheet[first_row + 1]
          IN  tab' = [tab EXCEPT
                  !.has_header = has_header,
                  !.first_row = first_row,
                  !.header = IF has_header THEN Stripped(names)
                             ELSE ColumnNames(Len(names)),
                  !.file = sheet,
                  !.pc = "open"]
    /\ UNCHANGED otherThanTab

\* One group of read_xls's loop (io.py:800-808); key is the row index.
XlsRow ==
    /\ tab.kind = "xls" /\ tab.pc = "open"
    /\ tab.cursor < Len(tab.file)
    /\ LET key == tab.cursor
           values == tab.file[key + 1]
       IN  tab' = [tab EXCEPT
               !.cursor = @ + 1,
               !.out = IF tab.has_header /\ key = tab.first_row THEN @
                       ELSE IF AnyValue(values)
                            THEN Append(@, DictZip(tab.header, values))
                            ELSE @]
    /\ UNCHANGED otherThanTab

\* read_mdb up to its loop (io.py:342-347): the first line of mdb-export's
\* output gives the header.
OpenMdb ==
    /\ tab.kind = "mdb" /\ tab.pc = "new"
    /\ \E names \in HeaderRows :
          tab' = [tab EXCEPT
              !.header = names, !.file = <<names>>, !.cursor = 1,
              !.pc = "open"]
    /\ UNCHANGED otherThanTab

\* One line of read_mdb's loop (io.py:349-351).
MdbRow ==
    /\ tab.kind = "mdb" /\ tab.pc = "open"
    /\ RowsTaken < MaxRows
    /\ \E values \in CsvRows :
          tab' = [tab EXCEPT
              !.file = Append(@, values),
              !.cursor = @ + 1,
              !.out = Append(@, DictZip(tab.header, values))]
    /\ UNCHANGED otherThanTab

NextTab ==
    \/ OpenCsv
    \/ CsvRow
    \/ OpenFixed
    \/ FixedLine
    \/ OpenXls
    \/ XlsRow
    \/ OpenMdb
    \/ MdbRow

(***************************************************************************)
(* Part 5: type guessing, guess_type_by_field and guess_type_by_value with *)
(* the predicates is_date, is_time and is_datetime (typetools.py).         *)
(*                                                                         *)
(* A field name is a sequence of one-character strings.  A value is a      *)
(* record: its Python type and what the tests look at.  A text value       *)
(* carries what the parsers of fntools and convert make of it (`kind`,     *)
(* and for the date parser the year and the time of day it finds, the      *)
(* defaults NULL_YEAR and NULL_TIME standing for what it does not find).   *)
(***************************************************************************)
MaxFields == 2
    \* names given to guess_type_by_field, fields of a record, values tested

NULL_YEAR == 9999

NULL_TIME == "00:00:00"

\* The words the rules of guess_type_by_field look for (typetools.py:71-80).
Word ==
    [date |-> <<"d", "a", "t", "e">>,
     time |-> <<"t", "i", "m", "e">>,
     value |-> <<"v", "a", "l", "u", "e">>,
     length |-> <<"l", "e", "n", "g", "t", "h">>,
     width |-> <<"w", "i", "d", "t", "h">>,
     days |-> <<"d", "a", "y", "s">>,
     count |-> <<"c", "o", "u", "n", "t">>]

\* Field names: an optional first word followed by an optional second.
FieldNames ==
    {a \o b : a \in {<<>>, Word.date, Word.time, <<"r", "a", "w", "_">>},
              b \in {<<>>, Word.date, Word.time, Word.value, Word.length,
                     Word.width, Word.days, Word.count, <<"x">>}}

\* needle in hay
Contains(hay, needle) ==
    \E i \in 0..(Len(hay) - Len(needle)) :
        SubSeq(hay, i + 1, i + Len(needle)) = needle

\* floats (typetools.py:71)
floats == <<Word.value, Word.length, Word.width, Word.days>>

\* ft.find(targets, candidates, method='fuzzy') for one candidate: some
\* target is contained in it.
Find(targets, x) == \E i \in DOMAIN targets : Contains(x, targets[i])

Outcome(b) == IF b THEN "truthy" ELSE "falsy"

\* The mutant of guess_funcs: the date rule tried before the datetime rule.
FieldRulesDateFirst == <<"date", "datetime", "time", "float", "int", "text">>

\* guess_funcs of guess_type_by_field (typetools.py:75-82), by type.
FieldRules == <<"datetime", "date", "time", "float", "int", "text">>

\* g['func'] of guess_type_by_field (typetools.py:72-81)
FieldFunc(type, x) ==
    CASE type = "datetime" ->
            Outcome(Contains(x, Word.date) /\ Contains(x, Word.time))
      [] type = "date" -> Outcome(Contains(x, Word.date))
      [] type = "time" -> Outcome(Contains(x, Word.time))
      [] type = "float" -> Outcome(Find(floats, x))
      [] type = "int" -> Outcome(Contains(x, Word.count))
      [] type = "text" -> "truthy"

Text(s, kind, year, time) ==
    [type |-> "unicode", s |-> s, kind |-> kind, year |-> year, time |-> time]

Date(year) == [type |-> "date", year |-> year]

Time(time) == [type |-> "time", time |-> time]

Datetime(year, time) == [type |-> "datetime", year |-> year, time |-> time]

Years == {1982, NULL_YEAR}

Times == {"02:30:00", NULL_TIME}

\* Texts the date parser is asked about: with a date, a time of day, both
\* (the time possibly midnight), or neither.
DateTexts ==
    {Text("5/4/82", "date", 1982, NULL_TIME),
     Text("2:30", "time", NULL_YEAR, "02:30:00"),
     Text("5/4/82 2:30", "datetime", 1982, "02:30:00"),
     Text("5/4/82 0:00", "datetime", 1982, NULL_TIME),
     Text("abc", "text", NULL_YEAR, NULL_TIME)}

\* date, time and datetime objects, the null year and midnight included.
DateObjects ==
    {Date(y) : y \in Years} \cup {Time(t) : t \in Times}
        \cup {Datetime(y, t) : y \in Years, t \in Times}

\* Values no converter accepts: a list, an empty list, a number, None.
OtherObjects ==
    {[type |-> "list", len |-> 2], [type |-> "list", len |-> 0],
     [type |-> "int", n |-> 10], [type |-> "NoneType"]}

\* What is_date, is_time and is_datetime are tried on.
DateInputs == DateTexts \cup DateObjects \cup OtherObjects

\* Values of the fields of a record.
Values ==
    DateInputs \cup
    {[type |-> "unicode", s |-> " ", kind |-> "blank"],
     [type |-> "bool", b |-> FALSE],
     [type |-> "unicode", s |-> "false", kind |-> "bool"],
     [type |-> "unicode", s |-> "1", kind |-> "int"],
     [type |-> "float", n |-> 15],
     [type |-> "unicode", s |-> "1.5", kind |-> "float"]}

\* The attributes of a value that the predicates use.
Attrs(v) ==
    CASE v.type = "datetime" ->
            {"date", "time", "timetuple", "isoformat", "year"}
      [] v.type = "date" -> {"timetuple", "isoformat", "year"}
      [] v.type = "time" -> {"isoformat"}
      [] v.type = "unicode" -> {"lower"}
      [] OTHER -> {}

\* bool(v) is False: None, False, an empty list, and in Python 2 a time of
\* midnight.
Falsy(v) ==
    \/ v.type = "NoneType"
    \/ v.type = "bool" /\ ~v.b
    \/ v.type = "list" /\ v.len = 0
    \/ v.type = "time" /\ v.time = NULL_TIME

\* ft.is_null with blanks_as_nulls=True
IsNull(v) == v.type = "NoneType" \/ (v.type = "unicode" /\ v.kind = "blank")

\* ft.is_bool
IsBool(v) == v.type = "bool" \/ (v.type = "unicode" /\ v.kind = "bool")

\* ft.is_int
IsInt(v) == v.type = "int" \/ (v.type = "unicode" /\ v.kind = "int")

\* ft.is_numeric
IsNumeric(v) ==
    \/ v.type \in {"int", "float"}
    \/ v.type = "unicode" /\ v.kind \in {"int", "float"}

\* cv.to_datetime: text becomes a datetime with the defaults for what it
\* lacks; a date, a time or a datetime is normalised when the converter
\* accepts such objects; anything else is a TypeError.
ToDatetime(content, accepts) ==
    CASE content.type = "unicode" ->
            [ok |-> TRUE, value |-> Datetime(content.year, content.time)]
      [] content.type = "date" /\ accepts ->
            [ok |-> TRUE, value |-> Datetime(content.year, NULL_TIME)]
      [] content.type = "time" /\ accepts ->
            [ok |-> TRUE, value |-> Datetime(NULL_YEAR, content.time)]
      [] content.type = "datetime" /\ accepts ->
            [ok |-> TRUE, value |-> content]
      [] OTHER -> [ok |-> FALSE]

\* try: converted = cv.to_datetime(content) / except TypeError: converted =
\* content  (typetools.py:193-196, 229-232, 265-268)
Converted(content, accepts) ==
    IF ToDatetime(content, accepts).ok
    THEN ToDatetime(content, accepts).value ELSE content

\* `converted and b`
AndAlso(converted, b) == IF Falsy(converted) THEN "falsy" ELSE Outcome(b)

\* is_date (typetools.py:173-206)
IsDate(content, accepts) ==
    LET converted == Converted(content, accepts)
        the_year ==
            IF "date" \in Attrs(converted) THEN converted.year
            ELSE IF "timetuple" \in Attrs(converted) THEN converted.year
            ELSE NULL_YEAR
    IN  AndAlso(converted, the_year # NULL_YEAR)

\* is_time (typetools.py:209-242): converted.isoformat() in the handler of
\* the first AttributeError raises a second one when the value has no
\* isoformat, and that one leaves is_time.
IsTime(content, accepts) ==
    LET converted == Converted(content, accepts)
    IN  IF "time" \in Attrs(converted)
        THEN AndAlso(converted, converted.time # NULL_TIME)
        ELSE IF "timetuple" \in Attrs(converted)
        THEN AndAlso(converted, FALSE)
        ELSE IF "isoformat" \in Attrs(converted)
        THEN AndAlso(converted, converted.time # NULL_TIME)
        ELSE "AttributeError"

\* The mutant of is_datetime: has_date alone is returned.
IsDatetimeHasDate(content, accepts) == IsDate(content, accepts)

\* is_datetime (typetools.py:245-282)
IsDatetime(content, accepts) ==
    LET converted == Converted(content, accepts)
        the_year ==
            IF "date" \in Attrs(converted) THEN converted.year ELSE NULL_YEAR
        the_time ==
            IF "time" \in Attrs(converted) THEN converted.time ELSE NULL_TIME
        has_date == AndAlso(converted, the_year # NULL_YEAR)
        has_time == AndAlso(converted, the_time # NULL_TIME)
    IN  IF has_date = "truthy" THEN has_time ELSE has_date

\* The mutant of guess_funcs: the float rule tried before the int rule.
ValueRulesFloatFirst ==
    <<"null", "bool", "float", "int", "datetime", "time", "date", "text">>

\* guess_funcs of guess_type_by_value (typetools.py:152-160), by type.
ValueRules ==
    <<"null", "bool", "int", "float", "datetime", "time", "date", "text">>

\* g['func'] of guess_type_by_value (typetools.py:148-160)
ValueFunc(type, v, accepts) ==
    CASE type = "null" -> Outcome(IsNull(v))
      [] type = "bool" -> Outcome(IsBool(v))
      [] type = "int" -> Outcome(IsInt(v))
      [] type = "float" -> Outcome(IsNumeric(v))
      [] type = "datetime" -> IsDatetime(v, accepts)
      [] type = "time" -> IsTime(v, accepts)
      [] type = "date" -> IsDate(v, accepts)
      [] type = "text" -> Outcome("lower" \in Attrs(v))

\* The result None of type_test.
NoResult == [none |-> TRUE]

\* str(type(value)) with 'type' and 'datetime.' replaced by '' and " '<>"
\* stripped (typetools.py:41-42)
RealType(value) == value.type

\* type_test (typetools.py:37-47), given how test(value) came out.
TypeTest(passed, type, key, value) ==
    IF passed = "AttributeError" THEN [id |-> key, type |-> RealType(value)]
    ELSE IF passed = "truthy" THEN [id |-> key, type |-> type]
    ELSE NoResult

\* The inner loop of guess_type_by_value (typetools.py:163-168): the first
\* result that is not None, or None when the rules run out.
RECURSIVE FirstValueResult(_, _, _, _)
FirstValueResult(rules, key, value, accepts) ==
    IF rules = <<>> THEN NoResult
    ELSE LET g == Head(rules)
             result == TypeTest(ValueFunc(g, value, accepts), g, key, value)
         IN  IF result # NoResult THEN result
             ELSE FirstValueResult(Tail(rules), key, value, accepts)

\* The inner loop of guess_type_by_field (typetools.py:85-90).
RECURSIVE FirstFieldResult(_, _)
FirstFieldResult(rules, item) ==
    IF rules = <<>> THEN NoResult
    ELSE LET g == Head(rules)
             result == TypeTest(FieldFunc(g, item), g, item, item)
         IN  IF result # NoResult THEN result
             ELSE FirstFieldResult(Tail(rules), item)

GuessFunctions == {"guess_type_by_field", "guess_type_by_value", "is_"}

NewGuess(fn, accepts) ==
    [fn |-> fn, accepts |-> accepts, input |-> <<>>, out |-> <<>>,
     err |-> "none"]

InitGuess ==
    tg \in {NewGuess(fn, accepts) : fn \in GuessFunctions, accepts \in BOOLEAN}

\* One name through guess_type_by_field's loop (typetools.py:84-90).
GuessField ==
    /\ tg.fn = "guess_type_by_field"
    /\ Len(tg.input) < MaxFields
    /\ \E item \in FieldNames :
          LET result == FirstFieldResult(FieldRules, item)
          IN  tg' = [tg EXCEPT
                  !.input = Append(@, item),
                  !.out = IF result # NoResult THEN Append(@, result) ELSE @]
    /\ UNCHANGED otherThanGuess

\* One field through guess_type_by_value's loop (typetools.py:162-170); the
\* key of a field is its place in the record.
GuessValue ==
    /\ tg.fn = "guess_type_by_value"
    /\ tg.err = "none"
    /\ Len(tg.input) < MaxFields
    /\ \E value \in Values :
          LET key == Len(tg.input) + 1
              result == FirstValueResult(ValueRules, key, value, tg.accepts)
          IN  tg' = [tg EXCEPT
                  !.input = Append(@, value),
                  !.out = IF result # NoResult THEN Append(@, result) ELSE @,
                  !.err = IF result # NoResult THEN @ ELSE "TypeError"]
    /\ UNCHANGED otherThanGuess

\* is_date, is_time and is_datetime called on one value.
TestDateTime ==
    /\ tg.fn = "is_"
    /\ Len(tg.input) < MaxFields
    /\ \E value \in DateInputs :
          tg' = [tg EXCEPT
              !.input = Append(@, value),
              !.out = Append(@, [is_date |-> IsDate(value, tg.accepts),
                                 is_time |-> IsTime(value, tg.accepts),
                                 is_datetime |->
                                     IsDatetime(value, tg.accepts)])]
    /\ UNCHANGED otherThanGuess

NextGuess ==
    \/ GuessField
    \/ GuessValue
    \/ TestDateTime

(***************************************************************************)
(* Part 6: sanitize_sheet (io.py:641-699).                                 *)
(*                                                                         *)
(* A cell is its xlrd type and its value; the value of a date cell is a    *)
(* float, here the number of quarter days (6 is 1.5).  What sanitize_sheet *)
(* yields for a cell is kept as the final type_, the converter of the      *)
(* switch that rendered it and the strftime format it used.                *)
(***************************************************************************)
MaxCells == 2
    \* cells of one sheet

\* Quarter days in a day: value < 1 is value < Day.
Day == 4

FormatOptions == {"date_format", "dt_format", "time_format"}

\* The defaults of the three options (io.py:671-673).
DefaultFormat ==
    [date_format |-> "%Y-%m-%d", dt_format |-> "%Y-%m-%d %H:%M:%S",
     time_format |-> "%H:%M:%S"]

\* A format a caller gives for each option.
CallerFormat ==
    [date_format |-> "%d/%m/%Y", dt_format |-> "%d/%m/%Y %H:%M",
     time_format |-> "%H:%M"]

\* kwargs: any of the three options given.
KwargsArgs ==
    {[o \in given |-> CallerFormat[o]] : given \in SUBSET FormatOptions}

\* kwargs.get(key, default)
Get(kwargs, key, default) ==
    IF key \in DOMAIN kwargs THEN kwargs[key] ELSE default

SheetCells ==
    {[type |-> "XL_CELL_DATE", value |-> v] : v \in {0, 2, 4, 6, 8}}
        \cup {[type |-> "XL_CELL_NUMBER", value |-> 6],
              [type |-> "XL_CELL_EMPTY", value |-> 0],
              [type |-> "XL_CELL_TEXT", value |-> 0],
              [type |-> "XL_CELL_BOOLEAN", value |-> 1]}

\* value.is_integer without a call (io.py:696): the bound method, which is
\* true as a condition whatever the value.
is_integer(value) == TRUE

\* The reclassification of a cell's type (io.py:694-697).
Reclassify(type_, value) ==
    IF type_ = "XL_CELL_DATE" /\ value < Day THEN "time"
    ELSE IF type_ = "XL_CELL_DATE" /\ ~is_integer(value) THEN "datetime"
    ELSE type_

\* switch.get(type_, lambda v: v) (io.py:679-687, 699): the converter and
\* the format it renders with, the formats read as io.py:671-673 reads them.
SwitchGet(type_, kwargs) ==
    LET date_format == Get(kwargs, "date_format", DefaultFormat.date_format)
        dt_format == Get(kwargs, "date_format", DefaultFormat.dt_format)
        time_format == Get(kwargs, "date_format", DefaultFormat.time_format)
    IN  CASE type_ = "XL_CELL_DATE" -> [by |-> "xl2dt", format |-> date_format]
          [] type_ = "datetime" -> [by |-> "xl2dt", format |-> dt_format]
          [] type_ = "time" -> [by |-> "time", format |-> time_format]
          [] type_ = "XL_CELL_EMPTY" -> [by |-> "empty", format |-> ""]
          [] type_ = "XL_CELL_NUMBER" -> [by |-> "unicode", format |-> ""]
          [] type_ = "XL_CELL_BOOLEAN" -> [by |-> "bool", format |-> ""]
          [] type_ = "XL_CELL_ERROR" -> [by |-> "error_text", format |-> ""]
          [] OTHER -> [by |-> "unchanged", format |-> ""]

NewSheet(kwargs) == [kwargs |-> kwargs, cells |-> <<>>, out |-> <<>>]

InitSheet == sh \in {NewSheet(kwargs) : kwargs \in KwargsArgs}

\* One cell through sanitize_sheet's loops (io.py:689-699); i is its row.
SanitizeCell ==
    /\ Len(sh.cells) < MaxCells
    /\ \E cell \in SheetCells, newRow \in BOOLEAN :
          LET i == IF sh.cells = <<>> THEN 0
                   ELSE sh.cells[Len(sh.cells)].i + (IF newRow THEN 1 ELSE 0)
              type_ == Reclassify(cell.type, cell.value)
              rendered == SwitchGet(type_, sh.kwargs)
          IN  sh' = [sh EXCEPT
                  !.cells = Append(@, [i |-> i, type |-> cell.type,
                                       value |-> cell.value]),
                  !.out = Append(@, [i |-> i, type_ |-> type_,
                                     by |-> rendered.by,
                                     format |-> rendered.format,
                                     value |-> cell.value])]
    /\ UNCHANGED otherThanSheet

NextSheet == SanitizeCell

(***************************************************************************)
(* Part 7: write (io.py:886-948).                                          *)
(*                                                                         *)
(* The content is text (a sequence of code points, whose pieces are        *)
(* unicode and get encoded) or a byte string (whose pieces are written as  *)
(* they are).  chunksize 0 stands for no chunksize: `chunksize or len(c)`  *)
(* and ft.chunk treat None and 0 alike.  No `length` is given, so no       *)
(* progress bar is printed.                                                *)
(***************************************************************************)
MaxContent == 3
    \* length of the content written

ContentKinds == {"unicode", "str"}

ChunksizeArgs == {0, 1, 2}

\* c.encode(ENCODING) (io.py:930)
RECURSIVE EncodeText(_)
EncodeText(c) ==
    IF c = <<>> THEN <<>> ELSE EncodeChar(Head(c)) \o EncodeText(Tail(c))

\* ft.chunk(content, chunksize): pieces of at most chunksize elements, the
\* whole content as one piece without a chunksize.
RECURSIVE Chunk(_, _)
Chunk(content, chunksize) ==
    IF chunksize = 0 THEN <<content>>
    ELSE IF content = <<>> THEN <<>>
    ELSE <<Take(chunksize, content)>>
             \o Chunk(Drop(chunksize, content), chunksize)

\* The encoded form of a piece (io.py:929-935).
Encoded(c, kind) == IF kind = "unicode" THEN EncodeText(c) ELSE c

\* progress += chunksize or len(c) (io.py:938)
Progress(progress, chunksize, c) ==
    progress + (IF chunksize # 0 THEN chunksize ELSE Len(c))

NewWrite(kind, content, chunksize) ==
    [kind |-> kind, content |-> content, chunksize |-> chunksize,
     chunks |-> Chunk(content, chunksize), file |-> <<>>, progress |-> 0,
     pc |-> "writing", returned |-> 0]

InitWrite ==
    wr \in {NewWrite(kind, content, chunksize) :
               kind \in ContentKinds,
               content \in UNION {[1..n -> {97, 241}] : n \in 0..MaxContent},
               chunksize \in ChunksizeArgs}

\* One turn of _write's loop (io.py:928-938).
WriteChunk ==
    /\ wr.pc = "writing"
    /\ wr.chunks # <<>>
    /\ LET c == Head(wr.chunks)
       IN  wr' = [wr EXCEPT
               !.chunks = Tail(@),
               !.file = @ \o Encoded(c, wr.kind),
               !.progress = Progress(@, wr.chunksize, c)]
    /\ UNCHANGED otherThanWrite

\* `yield progress`, which write returns (io.py:945, 948).
ReturnProgress ==
    /\ wr.pc = "writing"
    /\ wr.chunks = <<>>
    /\ wr' = [wr EXCEPT !.pc = "returned", !.returned = wr.progress]
    /\ UNCHANGED otherThanWrite

NextWrite ==
    \/ WriteChunk
    \/ ReturnProgress

(***************************************************************************)
(* Part 8: read_geojson (io.py:848-883).                                   *)
(*                                                                         *)
(* One call of read_geojson on a parsed document.  reader is a generator:  *)
(* nothing of its body runs before the first record is pulled.  The        *)
(* records pass through read_any unchanged (io.py:883, 168-170).           *)
(***************************************************************************)
MaxFeatures == 2

\* The features a document may hold: with or without an "id" member, with
\* no "properties" member, an empty one or one property, and a geometry.
Features ==
    [has_id : BOOLEAN, properties : {"absent", "empty", "prop0"},
     geometry : {"Point", "LineString"}]

\* The documents read: one with no "features" member at all, and those with
\* a features array of up to MaxFeatures features.
Documents ==
    [has_features : {FALSE}, features : {<<>>}]
        \cup [has_features : {TRUE},
              features : UNION {[1..n -> Features] : n \in 0..MaxFeatures}]

\* ijson's items(f, 'features.item') (io.py:874): a lazy iterator over the
\* values found under the prefix.  The call reads nothing and raises
\* nothing; a document in which the prefix never occurs gives an iterator
\* that ends at once.
Items(doc) ==
    [raised |-> "none",
     values |-> IF doc.has_features THEN doc.features ELSE <<>>]

\* pr.merge([_id, record, feature['geometry']]) (io.py:879-881): the keys
\* of the three mappings, `id` being None when the feature has none and
\* record being {} when there are no properties.
Merge(feature) ==
    [k \in {"id", "type", "coordinates"}
            \cup (IF feature.properties = "prop0" THEN {"prop0"} ELSE {}) |->
        CASE k = "id"          -> IF feature.has_id THEN "id0" ELSE "None"
          [] k = "prop0"       -> "value0"
          [] k = "type"        -> feature.geometry
          [] k = "coordinates" -> "coordinates"]

NewGeo(doc) ==
    [doc |-> doc, pc |-> "created", features |-> <<>>, out |-> <<>>,
     err |-> "none"]

InitGeo == gj \in {NewGeo(doc) : doc \in Documents}

\* The first pull runs the try statement (io.py:873-876): KeyError from the
\* items call becomes TypeError, anything else goes on to the loop.
OpenGeojson ==
    /\ gj.pc = "created"
    /\ LET call == Items(gj.doc)
       IN  IF call.raised = "KeyError"
           THEN gj' = [gj EXCEPT !.pc = "failed", !.err = "TypeError"]
           ELSE gj' = [gj EXCEPT !.pc = "features", !.features = call.values]
    /\ UNCHANGED otherThanGeo

\* One turn of the loop over the features (io.py:878-881).
GeojsonFeature ==
    /\ gj.pc = "features"
    /\ gj.features # <<>>
    /\ gj' = [gj EXCEPT !.features = Tail(@),
                        !.out = Append(@, Merge(Head(gj.features)))]
    /\ UNCHANGED otherThanGeo

\* The features are used up: the generator ends.
EndGeojson ==
    /\ gj.pc = "features"
    /\ gj.features = <<>>
    /\ gj' = [gj EXCEPT !.pc = "done"]
    /\ UNCHANGED otherThanGeo

NextGeo ==
    \/ OpenGeojson
    \/ GeojsonFeature
    \/ EndGeojson

(***************************************************************************)
(* The parts at rest: an IterStringIO() built from nothing, no get_reader  *)
(* call made, a reader not yet opened, no name or value guessed, no cell   *)
(* of a sheet rendered, empty content to write, an empty features array.   *)
(***************************************************************************)
RestSIO ==
    /\ sio = [iter |-> <<>>, last |-> <<>>, pos |-> 0,
              bufsize |-> DefaultBufsize]
    /\ sioLog = <<>>
    /\ sioContent = <<>>

RestGR == calls = <<>>

RestRA ==
    /\ srcKind = "filelike"
    /\ pc = "created"
    /\ pos = 0
    /\ num = 0
    /\ pass = 1
    /\ rd = 0
    /\ out = <<>>
    /\ fstate = "open"
    /\ exc = NoExc
    /\ err = NoExc
    /\ scans = 0
    /\ decRetries = 0
    /\ nulRetries = 0
    /\ encoding = "given"
    /\ nAtFail = 0

RestTab == tab = NewReader("csv")

RestGuess == tg = NewGuess("guess_type_by_field", FALSE)

\* Everything but the part named at rest.
RestSheet == sh = NewSheet(<<>>)

RestWrite == wr = NewWrite("str", <<>>, 0)

RestGeo == gj = NewGeo([has_features |-> TRUE, features |-> <<>>])

RestButRA ==
    RestSIO /\ RestGR /\ RestTab /\ RestGuess /\ RestSheet /\ RestWrite
        /\ RestGeo

RestButSIO ==
    RestRA /\ RestGR /\ RestTab /\ RestGuess /\ RestSheet /\ RestWrite
        /\ RestGeo

RestButGR ==
    RestRA /\ RestSIO /\ RestTab /\ RestGuess /\ RestSheet /\ RestWrite
        /\ RestGeo

RestButTab ==
    RestRA /\ RestSIO /\ RestGR /\ RestGuess /\ RestSheet /\ RestWrite
        /\ RestGeo

RestButGuess ==
    RestRA /\ RestSIO /\ RestGR /\ RestTab /\ RestSheet /\ RestWrite
        /\ RestGeo

RestButSheet ==
    RestRA /\ RestSIO /\ RestGR /\ RestTab /\ RestGuess /\ RestWrite
        /\ RestGeo

RestButWrite ==
    RestRA /\ RestSIO /\ RestGR /\ RestTab /\ RestGuess /\ RestSheet
        /\ RestGeo

RestButGeo ==
    RestRA /\ RestSIO /\ RestGR /\ RestTab /\ RestGuess /\ RestSheet
        /\ RestWrite

InitReadAny == InitRA /\ RestButRA

SpecReadAny == InitReadAny /\ [][NextRA]_vars

InitStream == InitSIO /\ RestButSIO

SpecStream == InitStream /\ [][NextSIO]_vars

InitGetReader == InitGR /\ RestButGR

SpecGetReader == InitGetReader /\ [][NextGR]_vars

InitReaders == InitTab /\ RestButTab

SpecReaders == InitReaders /\ [][NextTab]_vars

InitGuessing == InitGuess /\ RestButGuess

SpecGuess == InitGuessing /\ [][NextGuess]_vars

InitSanitize == InitSheet /\ RestButSheet

SpecSheet == InitSanitize /\ [][NextSheet]_vars

InitWriting == InitWrite /\ RestButWrite

SpecWrite == InitWriting /\ [][NextWrite]_vars

InitGeojson == InitGeo /\ RestButGeo

SpecGeojson == InitGeojson /\ [][NextGeo]_vars

\* All parts side by side.
Init ==
    InitRA /\ InitSIO /\ InitGR /\ InitTab /\ InitGuess /\ InitSheet
        /\ InitWrite /\ InitGeo

Next ==
    NextRA \/ NextSIO \/ NextGR \/ NextTab \/ NextGuess \/ NextSheet
        \/ NextWrite \/ NextGeo

Spec == Init /\ [][Next]_vars

(***************************************************************************)
(* Claims about read_any.                                                  *)
(***************************************************************************)

\* C1: after a decoding failure raised when N records had been delivered,
\* the restarted pass delivers nothing of its first N records and next
\* delivers its record N+1: the i-th record the consumer receives is always
\* the record at position i, taken from the first pass for i <= N and from
\* the restarted pass for i > N.
C1_NoRecordReEmitted ==
    /\ \A i \in 1..Len(out) : out[i].idx = i
    /\ decRetries = 1 =>
         \A i \in 1..Len(out) :
            out[i].pass = (IF i <= nAtFail THEN 1 ELSE 2)

\* C1 witness: a decoding failure after two delivered records, and the
\* restarted pass has delivered its third record.
C1_Witness ==
    /\ decRetries = 1
    /\ nAtFail = 2
    /\ Len(out) = 3
    /\ out[3] = [pass |-> 2, idx |-> 3]

\* C2: each recoverable failure class gets its one restart: a decoding
\* failure reaches the caller only if a decoding restart was already spent,
\* a NUL-byte failure on a path source reaches the caller only if a NUL-byte
\* restart was already spent, and there are never more than two re-scans.
C2_EachClassRetriedOnce ==
    /\ scans <= 2
    /\ decRetries <= 1
    /\ nulRetries <= 1
    /\ (pc = "raised" /\ err.kind = "decode") => decRetries = 1
    /\ (pc = "raised" /\ err.kind = "nul" /\ srcKind = "path") => nulRetries = 1

\* C3: a NUL-byte failure is recovered only on a path source; a NUL-byte
\* failure on a file-like source, and any failure that is neither a decoding
\* nor a NUL-byte failure, reaches the caller as the very failure that was
\* raised, with no re-scan and no further record, and nothing is delivered
\* after it.
C3_Unrecoverable(e) ==
    \/ e.kind = "nul" /\ srcKind = "filelike"
    \/ e.kind \notin {"none", "decode", "nul"}

C3_OtherFailuresPropagate ==
    [][ /\ (nulRetries' > 0 => srcKind' = "path")
        /\ (pc = "except" /\ C3_Unrecoverable(exc)) =>
              /\ pc' = "raised"
              /\ err' = exc
              /\ scans' = scans
              /\ out' = out
              /\ rd' = rd
        /\ (pc = "raised" => out' = out /\ scans' = scans) ]_vars

\* C3 witness: a file-like source whose reader raised a NUL-byte failure
\* after a record was delivered; the failure reached the caller, no re-scan.
C3_Witness ==
    /\ srcKind = "filelike"
    /\ pc = "raised"
    /\ err = Failure("nul", 1, 1)
    /\ Len(out) = 1
    /\ scans = 0

\* C4: a file opened for a path is closed in every final state (exhausted,
\* abandoned, failed, also when the failure came from a restarted pass); a
\* caller's file-like object is open throughout.
C4_FileClosedOnEveryExit ==
    /\ (srcKind = "path" /\ pc \in Terminal) => fstate # "open"
    /\ srcKind = "filelike" => fstate = "open"

\* C4 witness: a path source, a failure raised by the restarted pass has
\* reached the caller, and the file is closed.
C4_Witness ==
    /\ srcKind = "path"
    /\ pc = "raised"
    /\ err.pass = 2
    /\ scans = 1
    /\ fstate = "closed"


(***************************************************************************)
(* Claims about IterStringIO.  They are stated over sioLog, the calls made *)
(* so far with what each returned and what tell() gave after it.           *)
(***************************************************************************)
RECURSIVE Concat(_)
Concat(seqs) == IF seqs = <<>> THEN <<>> ELSE Head(seqs) \o Concat(Tail(seqs))

RECURSIVE Sum(_)
Sum(nums) == IF nums = <<>> THEN 0 ELSE Head(nums) + Sum(Tail(nums))

IsPrefix(a, b) == Len(a) <= Len(b) /\ SubSeq(b, 1, Len(a)) = a

\* The bytes call i of the log returned (the lines of a readlines joined).
Returned(i) ==
    IF sioLog[i].op = "readlines" THEN Concat(sioLog[i].lines)
    ELSE sioLog[i].ret

\* The bytes returned by calls lo..hi of the log.
ReturnedIn(lo, hi) == Concat([i \in 1..(hi - lo + 1) |-> Returned(lo + i - 1)])

\* The utf-8 bytes of a text.
TextBytes(text) == Concat([i \in 1..Len(text) |-> EncodeChar(text[i])])

TellAfter(i) == IF i = 0 THEN 0 ELSE sioLog[i].tell

OnlyOps(ops) == \A i \in 1..Len(sioLog) : sioLog[i].op \in ops

\* Index of the last seek among calls 1..i, 0 if there is none.
RECURSIVE LastSeek(_)
LastSeek(i) ==
    IF i = 0 THEN 0
    ELSE IF sioLog[i].op = "seek" THEN i ELSE LastSeek(i - 1)

\* C5 as stated: tell() never decreases, whatever the calls, and always
\* equals the number of elements consumed from the sequence so far.
C5_PosMonotonicAndCountsConsumed ==
    /\ \A i \in 1..Len(sioLog) : TellAfter(i) >= TellAfter(i - 1)
    /\ sio.pos = Sum([i \in 1..Len(sioLog) |-> sioLog[i].took])

\* C5 amended: tell() never decreases over read, readline, readlines and
\* write, and write leaves it as it is; seek(n) sets it to n; at any time it
\* is the n of the last seek (0 if none) plus the number of bytes the reads
\* since then returned.
C5_PosCountsReturnedBytesSinceSeek ==
    /\ sio.pos = TellAfter(Len(sioLog))
    /\ \A i \in 1..Len(sioLog) :
          /\ sioLog[i].op # "seek" => TellAfter(i) >= TellAfter(i - 1)
          /\ sioLog[i].op = "write" => TellAfter(i) = TellAfter(i - 1)
          /\ sioLog[i].op = "seek" => TellAfter(i) = sioLog[i].n
          /\ LET k == LastSeek(i)
             IN  TellAfter(i) = (IF k = 0 THEN 0 ELSE sioLog[k].n)
                                   + Len(ReturnedIn(k + 1, i))

\* C5 witness: two bytes were read, seek(0) took tell() back from 2 to 0,
\* and a later read moved it on again.
C5_Witness ==
    /\ Len(sioLog) = 3
    /\ sioLog[1].op = "read" /\ sioLog[1].tell = 2
    /\ sioLog[2].op = "seek" /\ sioLog[2].tell = 0
    /\ sioLog[3].op = "read" /\ sioLog[3].tell = 1

\* C6: after reads and readlines only, the lookback buffer is the bytes they
\* returned, in order, cut to the most recent bufsize of them.
C6_LookbackIsWhatWasReturned ==
    OnlyOps({"read", "readline"}) =>
       /\ Len(sio.last) <= sio.bufsize
       /\ [i \in 1..Len(sio.last) |-> sio.last[i].b[1]]
             = LastN(sio.bufsize, ReturnedIn(1, Len(sioLog)))

\* C7: after seek(n) tell() is n; and where only read calls surround one
\* seek(n) into the retained bytes, the reads after it return, in order, the
\* bytes returned before it from offset n on, then the bytes not read yet;
\* and where reads and seek(0) alternate, every run of reads that follows a
\* seek(0) starts the content over.
C7_SeekReplaysStream ==
    \A i \in 1..Len(sioLog) : sioLog[i].op = "seek" =>
       /\ sioLog[i].tell = sioLog[i].n
       /\ LET before == ReturnedIn(1, i - 1)
              after  == ReturnedIn(i + 1, Len(sioLog))
              all    == TextBytes(sioContent)
          IN  ( /\ \A j \in 1..Len(sioLog) : j # i => sioLog[j].op = "read"
                /\ sioLog[i].n <= Len(before)
                /\ Len(before) <= sio.bufsize )
              => IsPrefix(after, Drop(sioLog[i].n, before)
                                    \o Drop(Len(before), all))
       /\ ( /\ OnlyOps({"read", "seek"})
            /\ \A j \in 1..Len(sioLog) :
                  sioLog[j].op = "seek" => sioLog[j].n = 0
            /\ Len(ReturnedIn(1, Len(sioLog))) <= sio.bufsize
            /\ \A j \in (i + 1)..Len(sioLog) : sioLog[j].op = "read" )
          => IsPrefix(ReturnedIn(i + 1, Len(sioLog)), TextBytes(sioContent))

\* C8: with write and read calls only, the bytes the reads returned, joined,
\* are a prefix of the constructor content followed by the written
\* fragments in write order.
C8_WriteAppendsToTail ==
    OnlyOps({"read", "write"}) =>
       IsPrefix(ReturnedIn(1, Len(sioLog)), TextBytes(sioContent))

\* C8 witness: content 'n~\n'; read(1) returned the first character, 'a'
\* was written while '\n' was pending, and read() returned '\na'.
C8_Witness ==
    /\ sioContent = <<241, 10, 97>>
    /\ Len(sioLog) = 3
    /\ sioLog[1].op = "read" /\ sioLog[1].ret = <<195, 177>>
    /\ sioLog[2].op = "write"
    /\ sioLog[3].op = "read" /\ sioLog[3].ret = <<10, 97>>

\* The segments of a text between line separators ('\r\n' counted as one),
\* an empty segment kept; a separator that ends the text opens no segment.
RECURSIVE Segments(_, _, _)
Segments(text, cur, acc) ==
    IF text = <<>> THEN (IF cur = <<>> THEN acc ELSE Append(acc, cur))
    ELSE IF Len(text) >= 2 /\ text[1] = 13 /\ text[2] = 10
           THEN Segments(Drop(2, text), <<>>, Append(acc, cur))
    ELSE IF text[1] \in {10, 13}
           THEN Segments(Tail(text), <<>>, Append(acc, cur))
    ELSE Segments(Tail(text), Append(cur, text[1]), acc)

SegmentBytes ==
    LET segs == Segments(sioContent, <<>>, <<>>)
    IN  [i \in 1..Len(segs) |-> TextBytes(segs[i])]

\* C9: successive readline() calls return the segments of the stream in
\* order, the k-th call the k-th segment, empty segments included, and run
\* out only after the last; readlines() returns them all; no line holds a
\* separator.
C9_LinesAreTheSegments ==
    /\ ( /\ OnlyOps({"readline"})
         /\ \A i \in 1..Len(sioLog) : sioLog[i].n = 0 )
       => \A i \in 1..Len(sioLog) :
             IF i <= Len(SegmentBytes)
               THEN ~sioLog[i].stop /\ sioLog[i].ret = SegmentBytes[i]
               ELSE sioLog[i].stop
    /\ (Len(sioLog) = 1 /\ sioLog[1].op = "readlines")
       => sioLog[1].lines = SegmentBytes
    /\ OnlyOps({"readline", "readlines"})
       => \A i \in 1..Len(sioLog) :
             \A j \in 1..Len(Returned(i)) : Returned(i)[j] \notin {10, 13}


(***************************************************************************)
(* Claims about get_reader.                                                *)
(***************************************************************************)

\* C10: every extension of the table gets its registered reader (xls and
\* xlsx both read_xls, geojson and geojson.json both read_geojson), and any
\* other extension, the empty one included, fails with TypeError.
C10_Registered ==
    [ext \in {"csv", "tsv", "xls", "xlsx", "mdb", "json", "geojson",
              "geojson.json", "sqlite", "dbf"} |->
        IF ext \in {"xls", "xlsx"} THEN "read_xls"
        ELSE IF ext \in {"geojson", "geojson.json"} THEN "read_geojson"
        ELSE "read_" \o ext]

C10_ReaderOrTypeError ==
    \A i \in 1..Len(calls) :
       IF calls[i].extension \in DOMAIN C10_Registered
         THEN calls[i].outcome = Returns(C10_Registered[calls[i].extension])
         ELSE calls[i].outcome = Raises("TypeError")

(***************************************************************************)
(* Claims about the row readers.                                           *)
(***************************************************************************)

\* Every value of the record is None, empty or whitespace.
AllBlank(record) ==
    \A k \in DOMAIN record : record[k] = PyNone \/ Strip(record[k]) = <<>>

\* C11: no reader (read_csv/read_tsv, read_fixed_csv, read_xls, read_mdb)
\* ever yields a record whose values are all blank, whatever the input,
\* blank lines or rows between data rows included.
C11_NoAllBlankRecord ==
    \A j \in DOMAIN tab.out : ~AllBlank(tab.out[j])

Range(s) == {s[i] : i \in DOMAIN s}

Distinct(s) == \A i, j \in DOMAIN s : i # j => s[i] # s[j]

\* read_csv was given a file whose header row holds distinct non-blank names.
CsvWithGoodHeader ==
    /\ tab.kind = "csv" /\ tab.pc = "open" /\ tab.has_header
    /\ Distinct(tab.file[1])
    /\ \A i \in DOMAIN tab.file[1] : Strip(tab.file[1][i]) # <<>>

\* The data rows read so far from a file with a header row.
DataRows == SubSeq(tab.file, 2, tab.cursor)

\* The row has a non-blank cell among its first n.
NonBlankWithin(row, n) ==
    \E i \in 1..Min(n, Len(row)) : Strip(row[i]) # <<>>

\* out is one record per row of `rows`, in order, keyed by exactly the
\* header names, the cell of column i under the i-th name.
RecordsOf(rows) ==
    /\ Len(tab.out) = Len(rows)
    /\ \A j \in 1..Len(rows) :
          /\ DOMAIN tab.out[j] = Range(tab.file[1])
          /\ \A i \in 1..Min(Len(tab.file[1]), Len(rows[j])) :
                tab.out[j][tab.file[1][i]] = rows[j][i]

\* C12, as stated: for a header of distinct non-blank names read_csv yields
\* exactly one record per non-blank data row, in file order, keyed by
\* exactly the header names (cells beyond the header dropped), nothing for
\* a blank row, and never the header row.
C12_OneRecordPerNonBlankRow ==
    CsvWithGoodHeader =>
        RecordsOf(SelectSeq(DataRows,
                            LAMBDA row : NonBlankWithin(row, Len(row))))

\* C12, amended: one record per data row that has a non-blank cell in a
\* column under the header; a row whose only non-blank cells lie beyond the
\* header yields nothing.
C12_OneRecordPerRowNonBlankUnderHeader ==
    CsvWithGoodHeader =>
        RecordsOf(SelectSeq(DataRows,
                            LAMBDA row : NonBlankWithin(row, Len(tab.header))))

\* A blank row was skipped and a row wider than the header gave a record.
C12_Witness ==
    /\ CsvWithGoodHeader
    /\ Len(tab.header) = 2
    /\ \E j \in DOMAIN DataRows :
          DataRows[j] # <<>> /\ ~NonBlankWithin(DataRows[j], Len(DataRows[j]))
    /\ \E j \in DOMAIN DataRows :
          Len(DataRows[j]) = 3 /\ NonBlankWithin(DataRows[j], 2)
    /\ Len(tab.out) = 1

\* The 0-based positions of `line` that field i of `widths` covers.
FieldPositions(line, widths, i) ==
    {p \in 0..(Len(line) - 1) :
        widths[i] <= p /\ (i = Len(widths) \/ p < widths[i + 1])}

\* The characters of `line` at the positions P (an interval), in order.
TextAt(line, P) ==
    IF P = {} THEN <<>>
    ELSE SubSeq(line, (CHOOSE p \in P : \A q \in P : p <= q) + 1, Max(P) + 1)

\* C13: read_fixed_csv with ascending offsets w_1 < ... < w_k and no header
\* yields for every line, the first included, a record with exactly the
\* fields column_1 .. column_k, field i the trimmed line[w_i, w_(i+1)) and
\* field k the trimmed line[w_k, end); no character is in two fields.
C13_FieldsAreTheSlices ==
    (tab.kind = "fixed" /\ tab.pc = "open" /\ ~tab.has_header) =>
        /\ Len(tab.out) = Len(tab.file)
        /\ \A j \in DOMAIN tab.file :
              LET k == Len(tab.widths)
                  P(i) == FieldPositions(tab.file[j], tab.widths, i)
              IN  /\ DOMAIN tab.out[j] = {ColumnName(i) : i \in 1..k}
                  /\ \A i \in 1..k :
                        tab.out[j][ColumnName(i)] =
                            Strip(TextAt(tab.file[j], P(i)))
                  /\ \A i, h \in 1..k : i # h => P(i) \cap P(h) = {}

\* Two lines read with three offsets, one of them with text in every field.
C13_Witness ==
    /\ tab.kind = "fixed" /\ tab.pc = "open" /\ ~tab.has_header
    /\ Len(tab.widths) = 3
    /\ Len(tab.out) = 2
    /\ \E j \in DOMAIN tab.out :
          \A k \in DOMAIN tab.out[j] : tab.out[j][k] # <<>>

(***************************************************************************)
(* Claims about type guessing.                                             *)
(***************************************************************************)

\* The type named for a field name: the first rule that matches, in the
\* order datetime, date, time, float, int, text.
TypeByName(x) ==
    IF Contains(x, Word.date) /\ Contains(x, Word.time) THEN "datetime"
    ELSE IF Contains(x, Word.date) THEN "date"
    ELSE IF Contains(x, Word.time) THEN "time"
    ELSE IF \E w \in {Word.value, Word.length, Word.width, Word.days} :
                Contains(x, w)
         THEN "float"
    ELSE IF Contains(x, Word.count) THEN "int"
    ELSE "text"

\* C14: guess_type_by_field yields exactly one (id, type) pair per input
\* name, in input order, the type that of the first matching rule in the
\* order datetime, date, time, float, int, text: a name with 'date' and
\* 'value' is 'date', a name with 'date' and 'time' is 'datetime'.
C14_FirstMatchingNameRule ==
    tg.fn = "guess_type_by_field" =>
        /\ Len(tg.out) = Len(tg.input)
        /\ \A i \in DOMAIN tg.input :
              tg.out[i] = [id |-> tg.input[i], type |-> TypeByName(tg.input[i])]

\* 'datevalue' was typed 'date' and then 'datetime' was typed 'datetime'.
C14_Witness ==
    /\ tg.fn = "guess_type_by_field"
    /\ tg.input = <<Word.date \o Word.value, Word.date \o Word.time>>
    /\ tg.out[1].type = "date" /\ tg.out[2].type = "datetime"

\* The order of the rules of guess_type_by_value.
ValueRuleOrder ==
    <<"null", "bool", "int", "float", "datetime", "time", "date", "text">>

\* The label of the first rule in ValueRuleOrder, from rule r on, whose test
\* is truthy after clean falses: "unclean" when a test before it fails,
\* "none" when the rules run out.
RECURSIVE FirstMatch(_, _, _)
FirstMatch(v, accepts, r) ==
    IF r > Len(ValueRuleOrder) THEN "none"
    ELSE LET passed == ValueFunc(ValueRuleOrder[r], v, accepts)
         IN  IF passed = "truthy" THEN ValueRuleOrder[r]
             ELSE IF passed = "falsy" THEN FirstMatch(v, accepts, r + 1)
             ELSE "unclean"

Unclassifiable(v, accepts) ==
    /\ ~IsNull(v) /\ ~IsBool(v) /\ ~IsNumeric(v)
    /\ v.type \notin {"date", "time", "datetime"}
    /\ ~ToDatetime(v, accepts).ok
    /\ "lower" \notin Attrs(v)

\* C16: guess_type_by_value fails with TypeError ("Couldn't guess type") on
\* a field whose value is unclassifiable, a list for one, and yields no
\* label for that field.
C16_UnclassifiableIsTypeError ==
    tg.fn = "guess_type_by_value" =>
        \A i \in DOMAIN tg.input :
            Unclassifiable(tg.input[i], tg.accepts) =>
                /\ tg.err = "TypeError"
                /\ i = Len(tg.input)
                /\ Len(tg.out) = i - 1

\* What the value is made of as written: a date, a time of day, both or
\* neither.
Facets(v) ==
    CASE v.type = "datetime" -> {"date", "time"}
      [] v.type = "date" -> {"date"}
      [] v.type = "time" -> {"time"}
      [] v.type = "unicode" /\ v.kind = "datetime" -> {"date", "time"}
      [] v.type = "unicode" /\ v.kind = "date" -> {"date"}
      [] v.type = "unicode" /\ v.kind = "time" -> {"time"}
      [] OTHER -> {}

\* The facets that are not the null year or the null time.
NonNullFacets(v) ==
    {f \in Facets(v) : IF f = "date" THEN v.year # NULL_YEAR
                       ELSE v.time # NULL_TIME}

Answers(date, time, datetime) ==
    [is_date |-> date, is_time |-> time, is_datetime |-> datetime]

\* C17, as stated: on every input a date gives is_date true and the other
\* two false, a time of day is_time true and the other two false, a date
\* with a time all three true, and is_datetime is truthy exactly when
\* is_date and is_time both are.
C17_PredicatesAgree ==
    tg.fn = "is_" =>
        \A i \in DOMAIN tg.out :
            LET o == tg.out[i]
                f == Facets(tg.input[i])
            IN  /\ f = {"date"} => o = Answers("truthy", "falsy", "falsy")
                /\ f = {"time"} => o = Answers("falsy", "truthy", "falsy")
                /\ f = {"date", "time"} =>
                      o = Answers("truthy", "truthy", "truthy")
                /\ o.is_datetime = "truthy" <=>
                      (o.is_date = "truthy" /\ o.is_time = "truthy")

\* C17, amended: the year 9999 counts as no date and the time 00:00:00 as
\* no time.  is_date is truthy exactly for a value with a date that is not
\* in the null year, is_time exactly for one with a time that is not
\* midnight, is_datetime exactly when both are, with or without the
\* converter accepting the value; none of them is truthy otherwise.
C17_PredicatesAgreeOnNonNull ==
    tg.fn = "is_" =>
        \A i \in DOMAIN tg.out :
            LET o == tg.out[i]
                f == NonNullFacets(tg.input[i])
            IN  /\ o.is_date = "truthy" <=> "date" \in f
                /\ o.is_time = "truthy" <=> "time" \in f
                /\ o.is_datetime = "truthy" <=> f = {"date", "time"}
                /\ o.is_datetime = "truthy" <=>
                      (o.is_date = "truthy" /\ o.is_time = "truthy")

\* A date the converter did not accept was a date only, and a datetime at
\* midnight was a date only as well.
C17_Witness ==
    /\ tg.fn = "is_" /\ ~tg.accepts
    /\ tg.input = <<Date(1982), Datetime(1982, NULL_TIME)>>
    /\ tg.out[1] = Answers("truthy", "falsy", "falsy")
    /\ tg.out[2] = Answers("truthy", "falsy", "falsy")

(***************************************************************************)
(* Claims about sanitize_sheet.                                            *)
(***************************************************************************)

\* C18: sanitize_sheet reclassifies a date cell three ways and renders it
\* with the converter of its class: a value below 1 is a time of day, a
\* value of at least 1 with a fractional part a datetime, a whole value of
\* at least 1 a plain date.
C18_DateCellsThreeWays ==
    \A j \in DOMAIN sh.out :
        sh.cells[j].type = "XL_CELL_DATE" =>
            LET value == sh.cells[j].value
                class == IF value < Day THEN "time"
                         ELSE IF value % Day # 0 THEN "datetime"
                         ELSE "XL_CELL_DATE"
            IN  /\ sh.out[j].type_ = class
                /\ sh.out[j].by = (IF class = "time" THEN "time" ELSE "xl2dt")

\* The option that gives the format of a class of date cells.
OptionOf(type_) ==
    CASE type_ = "time" -> "time_format"
      [] type_ = "datetime" -> "dt_format"
      [] type_ = "XL_CELL_DATE" -> "date_format"

\* C19: the date, datetime and time formats are three independent options
\* with the defaults '%Y-%m-%d', '%Y-%m-%d %H:%M:%S' and '%H:%M:%S': a cell
\* of each class is rendered with the format given for its own option, or
\* that option's default, so a caller's date_format changes plain dates
\* only and a caller's dt_format and time_format are honoured.
C19_FormatsIndependent ==
    \A j \in DOMAIN sh.out :
        sh.cells[j].type = "XL_CELL_DATE" =>
            sh.out[j].format =
                Get(sh.kwargs, OptionOf(sh.out[j].type_),
                    DefaultFormat[OptionOf(sh.out[j].type_)])

(***************************************************************************)
(* Claims about write.                                                     *)
(***************************************************************************)

\* C20: write returns the number of bytes actually written, for every
\* content and chunksize: for L bytes of content the result is L with a
\* chunksize, also when L is not a multiple of it, and without a chunksize
\* it is the byte length of the encoded content.
C20_ReturnsBytesWritten ==
    wr.pc = "returned" =>
        /\ wr.file = Encoded(wr.content, wr.kind)
        /\ wr.returned = Len(wr.file)

(***************************************************************************)
(* Claims about read_geojson.                                              *)
(***************************************************************************)
\* C21: once records are pulled from read_geojson on a document with no
\* "features" member the call has failed with TypeError and yielded nothing,
\* it has not ended as an empty sequence; on a document with a features
\* array the finished call has yielded one record per feature, in order.
C21_NoFeaturesIsTypeError ==
    /\ (~gj.doc.has_features /\ gj.pc # "created") =>
            /\ gj.pc = "failed"
            /\ gj.err = "TypeError"
            /\ gj.out = <<>>
    /\ (gj.doc.has_features /\ gj.pc = "done") =>
            gj.out = [i \in 1..Len(gj.doc.features) |->
                         Merge(gj.doc.features[i])]

(***************************************************************************)
(* Claims about the header row of read_csv and the first row of read_xls.  *)
(***************************************************************************)
\* The names as they stood in the columns of the file: the first row when
\* it is a header row, column_1, column_2, ... otherwise.
NamesByColumn == IF tab.has_header THEN tab.file[1] ELSE tab.header

\* Every value of `record` was read from a column of `row` whose name, by
\* position, is the key it is stored under.  A name the row has no cell for
\* holds None, which was read from no column.
KeyedByOwnColumn(record, names, row) ==
    \A k \in DOMAIN record :
        record[k] # PyNone =>
            \E i \in 1..Min(Len(names), Len(row)) :
                names[i] = k /\ row[i] = record[k]

\* C22: whenever read_csv yields a record for a row, each value of the
\* record is keyed by the header name of the value's own column; a blank
\* header name in an earlier column does not move later names onto the
\* values of earlier columns.
C22_ValuesKeyedByOwnColumn ==
    [][(tab.kind = "csv" /\ tab.pc = "open"
            /\ Len(tab'.out) = Len(tab.out) + 1) =>
          KeyedByOwnColumn(tab'.out[Len(tab'.out)], NamesByColumn,
                           tab'.file[tab'.cursor])]_vars

\* C23: read_xls builds no record from a sheet row before row first_row,
\* and with a header row none from row first_row itself: whenever it yields
\* a record, the row just read lies after the header row, or at or after
\* the first row when there is no header row.
C23_NoRecordBeforeFirstRow ==
    [][(tab.kind = "xls" /\ tab.pc = "open"
            /\ Len(tab'.out) = Len(tab.out) + 1) =>
          /\ tab.cursor >= tab.first_row
          /\ tab.has_header => tab.cursor > tab.first_row]_vars

====
